---- MODULE Spec2Model ----
(***************************************************************************)
(* ld9: Mach-O to Plan 9 a.out cross-linker.                               *)
(* decode_macho (src/main.rs), MachO::is_dynamic (src/macho.rs), to_aout   *)
(* (src/main.rs) and AOut9::write_to (src/aout9.rs), modelled over byte    *)
(* buffers.  usize is taken as 64 bits wide; every integer the inputs of   *)
(* this model carry is below 2^31, so no sum or product wraps.             *)
(***************************************************************************)
EXTENDS Integers, Sequences, FiniteSets, TLC

(* ---------------------------------------------------------------- bounds *)
\* longest record stream of the general input family
MaxCmds == 2
\* largest N, M, K of the end-to-end input family
MaxPayload == 2
\* longest record sequence of a decoded image handed to to_aout directly
MaxLoads == 2

(* ------------------------------------------------------- layout constants *)
\* size_of::<Header>() and size_of::<Header64>()
HeaderSize == 28
Header64Size == 32
\* size_of::<LoadCommandHead>()
HeadSize == 8
\* size_of::<LoadCommand<LcSegment32>>(), size_of::<LoadCommand<LcSegment64>>()
Seg32Size == 56
Seg64Size == 72
\* size_of::<Section32>(), size_of::<Section64>()
Sect32Size == 68
Sect64Size == 80
\* size_of of the other typed records, head included
SymtabSize == 24
DySymtabSize == 80
UuidSize == 24
VersionMinOSSize == 16
SourceVersionSize == 16
UnixThreadHeadSize == 16
\* [u32; 16] and [u64; 21]
ThreadStateX86Size == 64
ThreadStateX86_64Size == 168

\* the magic numbers, as the four bytes the little-endian host reads them from
M32 == <<206, 250, 237, 254>>
M64 == <<207, 250, 237, 254>>

\* LoadCommandType
Segment32 == 1
Symtab == 2
UnixThread == 5
DySymtab == 11
LoadDylinker == 14
Segment64 == 25
Uuid == 27
VersionMinOS == 36
SourceVersion == 42

\* ThreadStateFlavor
ThreadStateFlavorX86 == 1
ThreadStateFlavorX86_64 == 4

\* b"__TEXT", b"__DATA", b"__bss"
TextName == <<95, 95, 84, 69, 88, 84>>
DataName == <<95, 95, 68, 65, 84, 65>>
BssName == <<95, 95, 98, 115, 115>>

\* aout9: magic!(0, 11), the entry to_aout sets, the load base write_to adds
MagicI == ((4 * 11) + 0) * 11 + 7
AoutEntry == 32
LoadBase == 4096

(* ------------------------------------------------------------ byte helpers *)
Zeros(n) == [k \in 1..n |-> 0]

\* a little-endian u32 / u64 as laid out in a #[repr(packed)] struct
LE32(v) == << v % 256, (v \div 256) % 256, (v \div 65536) % 256, (v \div 16777216) % 256 >>
LE64(v) == LE32(v) \o <<0, 0, 0, 0>>

\* a [u8; 16] name field: the name, NUL padded
Name16(s) == s \o Zeros(16 - Len(s))

Take(s, n) == SubSeq(s, 1, IF n < Len(s) THEN n ELSE Len(s))

RECURSIVE Flatten(_)
Flatten(ss) == IF ss = <<>> THEN <<>> ELSE Head(ss) \o Flatten(Tail(ss))

RECURSIVE SumSeq(_)
SumSeq(s) == IF s = <<>> THEN 0 ELSE Head(s) + SumSeq(Tail(s))

\* the byte at index k of the memory a read sees: the buffer, and past its
\* end whatever lies there (g)
ByteAt(buf, g, k) == IF k < Len(buf) THEN buf[k + 1] ELSE g

\* a u32 / u64 field of a reinterpreted struct, host (little-endian) order
U32At(buf, g, off) ==
  ByteAt(buf, g, off) + 256 * ByteAt(buf, g, off + 1)
    + 65536 * ByteAt(buf, g, off + 2) + 16777216 * ByteAt(buf, g, off + 3)
\* a u64 whose upper word is not zero exceeds every length of this model; it is
\* kept as Huge, since only its comparison with the buffer length is used
Huge == 2^30
U64At(buf, g, off) ==
  IF U32At(buf, g, off + 4) = 0 /\ U32At(buf, g, off) < Huge
    THEN U32At(buf, g, off) ELSE Huge

BytesAt(buf, g, off, n) == [k \in 1..n |-> ByteAt(buf, g, off + k - 1)]

(* ------------------------------------------------------------------ inputs *)
(* A record or section of an input file is described by a template; the    *)
(* builders below lay the templates out byte for byte as the packed structs *)
(* of macho.rs.                                                            *)

\* a section: its name, its size field, where its offset field points ("file":
\* at its own bytes, stored after the records; "zero": offset 0, no bytes of
\* its own, as a zero-fill section has; "past": at the end of the file) and
\* the first of its payload bytes
Sec(nm, sz, at, fill) == [sectname |-> nm, size |-> sz, at |-> at, fill |-> fill]

\* a record: its shape, declared cmdsize, segment name and sections, and the
\* flavor/count of a thread record
Rec(t, cmdsize, nm, sects, flavor, count) ==
  [t |-> t, cmdsize |-> cmdsize, name |-> nm, sects |-> sects,
   flavor |-> flavor, count |-> count]

SectPayload(s) == IF s.at = "file" THEN [k \in 1..s.size |-> s.fill + k - 1] ELSE <<>>
RecPayload(r) == Flatten([k \in 1..Len(r.sects) |-> SectPayload(r.sects[k])])

Pad(bytes, n) == Take(bytes \o Zeros(n - Len(bytes)), n)

Section32Bytes(s, segname, off) ==
  Name16(s.sectname) \o Name16(segname) \o LE32(0) \o LE32(s.size) \o LE32(off)
    \o Zeros(24)
Section64Bytes(s, segname, off) ==
  Name16(s.sectname) \o Name16(segname) \o LE64(0) \o LE64(s.size) \o LE32(off)
    \o Zeros(28)

RECURSIVE SectionsBytes(_, _, _, _, _)
SectionsBytes(wide, sects, segname, next, past) ==
  IF sects = <<>> THEN <<>>
  ELSE LET s == Head(sects)
           off == CASE s.at = "file" -> next
                    [] s.at = "zero" -> 0
                    [] OTHER -> past
       IN (IF wide THEN Section64Bytes(s, segname, off)
                   ELSE Section32Bytes(s, segname, off))
          \o SectionsBytes(wide, Tail(sects), segname, next + Len(SectPayload(s)), past)

LoadCommandHeadBytes(cmd, cmdsize) == LE32(cmd) \o LE32(cmdsize)

RecBytes(r, next, past) ==
  Pad(CASE r.t = "seg32" ->
             LoadCommandHeadBytes(Segment32, r.cmdsize) \o Name16(r.name) \o Zeros(24)
               \o LE32(Len(r.sects)) \o LE32(0)
               \o SectionsBytes(FALSE, r.sects, r.name, next, past)
        [] r.t = "seg64" ->
             LoadCommandHeadBytes(Segment64, r.cmdsize) \o Name16(r.name) \o Zeros(40)
               \o LE32(Len(r.sects)) \o LE32(0)
               \o SectionsBytes(TRUE, r.sects, r.name, next, past)
        [] r.t = "symtab" -> LoadCommandHeadBytes(Symtab, r.cmdsize) \o Zeros(16)
        [] r.t = "dysymtab" -> LoadCommandHeadBytes(DySymtab, r.cmdsize) \o Zeros(72)
        [] r.t = "uuid" -> LoadCommandHeadBytes(Uuid, r.cmdsize) \o [k \in 1..16 |-> k]
        [] r.t = "versionmin" -> LoadCommandHeadBytes(VersionMinOS, r.cmdsize) \o LE32(0) \o LE32(0)
        [] r.t = "sourceversion" -> LoadCommandHeadBytes(SourceVersion, r.cmdsize) \o LE64(0)
        [] r.t = "thread" ->
             LoadCommandHeadBytes(UnixThread, r.cmdsize) \o LE32(r.flavor) \o LE32(r.count)
        [] r.t = "dylinker" -> LoadCommandHeadBytes(LoadDylinker, r.cmdsize) \o LE32(12)
        [] OTHER -> LoadCommandHeadBytes(r.flavor, r.cmdsize),
      r.cmdsize)

RECURSIVE RecsBytes(_, _, _)
RecsBytes(recs, next, past) ==
  IF recs = <<>> THEN <<>>
  ELSE RecBytes(Head(recs), next, past)
       \o RecsBytes(Tail(recs), next + Len(RecPayload(Head(recs))), past)

HeaderBytes(magic, ncmds, sizeofcmds) ==
  magic \o LE32(7) \o LE32(3) \o LE32(2) \o LE32(ncmds) \o LE32(sizeofcmds) \o LE32(1)
    \o (IF magic = M64 THEN LE32(0) ELSE <<>>)

CmdsLen(recs) == SumSeq([k \in 1..Len(recs) |-> recs[k].cmdsize])

\* a whole file: header, the records back to back, then the sections' bytes
BuildFile(magic, ncmds, sizeofcmds, recs) ==
  LET hdr == HeaderBytes(magic, ncmds, sizeofcmds)
      payload == Flatten([k \in 1..Len(recs) |-> RecPayload(recs[k])])
      base == Len(hdr) + CmdsLen(recs)
  IN hdr \o RecsBytes(recs, base, base + Len(payload)) \o payload

\* section and segment names used by the inputs
SectText == <<95, 95, 116, 101, 120, 116>>
SectData == <<95, 95, 100, 97, 116, 97>>
TextExecName == TextName \o <<95, 69, 88, 69, 67>>

\* the thread-state counts decode_macho recognizes
CountX86 == 16
CountX86_64 == 42

RecordKinds ==
  { \* "__TEXT" with sections [a, b], and with section [c]
    Rec("seg32", Seg32Size + 2 * Sect32Size, TextName,
        <<Sec(SectText, 2, "file", 161), Sec(SectText, 1, "file", 177)>>, 0, 0),
    Rec("seg32", Seg32Size + Sect32Size, TextName, <<Sec(SectText, 1, "file", 193)>>, 0, 0),
    \* "__DATA" with one section
    Rec("seg32", Seg32Size + Sect32Size, DataName, <<Sec(SectData, 1, "file", 209)>>, 0, 0),
    \* a narrow segment whose name only begins with "__TEXT"
    Rec("seg32", Seg32Size + Sect32Size, TextExecName, <<Sec(SectText, 1, "file", 225)>>, 0, 0),
    \* a wide "__TEXT" segment
    Rec("seg64", Seg64Size + Sect64Size, TextName, <<Sec(SectText, 1, "file", 241)>>, 0, 0),
    \* declared size without room for the one section counted
    Rec("seg32", Seg32Size, TextName, <<Sec(SectText, 1, "file", 129)>>, 0, 0),
    Rec("seg64", Seg64Size, TextName, <<Sec(SectText, 1, "file", 130)>>, 0, 0),
    \* two sections, the first one's bytes past the end of the file
    Rec("seg32", Seg32Size + 2 * Sect32Size, TextName,
        <<Sec(SectText, 4, "past", 0), Sec(SectText, 1, "file", 131)>>, 0, 0),
    Rec("symtab", SymtabSize, <<>>, <<>>, 0, 0),
    Rec("dysymtab", DySymtabSize, <<>>, <<>>, 0, 0),
    Rec("uuid", UuidSize, <<>>, <<>>, 0, 0),
    \* a record declared longer than its typed shape
    Rec("uuid", UuidSize + 8, <<>>, <<>>, 0, 0),
    Rec("versionmin", VersionMinOSSize, <<>>, <<>>, 0, 0),
    Rec("sourceversion", SourceVersionSize, <<>>, <<>>, 0, 0),
    Rec("thread", UnixThreadHeadSize + ThreadStateX86Size, <<>>, <<>>,
        ThreadStateFlavorX86, CountX86),
    Rec("thread", UnixThreadHeadSize + ThreadStateX86_64Size, <<>>, <<>>,
        ThreadStateFlavorX86_64, CountX86_64),
    Rec("thread", UnixThreadHeadSize, <<>>, <<>>, ThreadStateFlavorX86, 3),
    Rec("dylinker", 32, <<>>, <<>>, 0, 0),
    \* a tag (0x26) outside the LoadCommandType constants
    Rec("other", 16, <<>>, <<>>, 38, 0) }

SeqsUpTo(S, n) == UNION { [1..k -> S] : k \in 0..n }

BadMagic == <<0, 0, 0, 0>>

\* buffers of every length up to the narrow header's, under each leading word
ShortInputs ==
  { Take(BuildFile(m, 1, UuidSize, <<Rec("uuid", UuidSize, <<>>, <<>>, 0, 0)>>), n) :
      m \in {M32, M64, BadMagic}, n \in 0..HeaderSize }

\* well-formed narrow files: every record stream of up to MaxCmds records
StreamInputs ==
  { BuildFile(M32, Len(rs), CmdsLen(rs), rs) : rs \in SeqsUpTo(RecordKinds, MaxCmds) }

\* wide-header files of up to one record, and a file with neither magic
WideInputs ==
  { BuildFile(m, Len(rs), CmdsLen(rs), rs) :
      m \in {M64, BadMagic}, rs \in SeqsUpTo(RecordKinds, 1) }

\* headers whose ncmds / sizeofcmds disagree with the records that follow
LyingInputs ==
  { BuildFile(M32, n, sz, rs) :
      n \in 1..3, sz \in {0, UuidSize, UuidSize + 8 + SymtabSize + 1},
      rs \in { <<Rec("uuid", UuidSize + 8, <<>>, <<>>, 0, 0)>>,
               <<Rec("uuid", UuidSize + 8, <<>>, <<>>, 0, 0),
                 Rec("symtab", SymtabSize, <<>>, <<>>, 0, 0)>> } }

\* one-record files cut off inside the record
TruncatedInputs ==
  { Take(BuildFile(M32, 1, 0, <<r>>), HeaderSize + c) :
      r \in RecordKinds, c \in {4, HeadSize, UnixThreadHeadSize, Seg32Size, Seg64Size} }

\* one "__TEXT" section of N bytes, one "__DATA" segment with a data section
\* of M bytes and a "__bss" section declaring K bytes
EndToEndInputs ==
  { BuildFile(M32, 2, 2 * Seg32Size + 3 * Sect32Size,
      << Rec("seg32", Seg32Size + Sect32Size, TextName,
             <<Sec(SectText, N, "file", 161)>>, 0, 0),
         Rec("seg32", Seg32Size + 2 * Sect32Size, DataName,
             <<Sec(SectData, M, "file", 209), Sec(BssName, K, "zero", 0)>>, 0, 0) >>) :
      N \in 0..MaxPayload, M \in 0..MaxPayload, K \in 0..MaxPayload }

Inputs ==
  ShortInputs \cup StreamInputs \cup WideInputs \cup LyingInputs
    \cup TruncatedInputs \cup EndToEndInputs

\* what a read past the end of the buffer may find in each byte
GarbageBytes == {0, 1}

(* ------------------------------------------------------------------- state *)
VARIABLES
  file,       \* the input buffer (file: &[u8])
  pc,         \* where the pipeline stands
  offset,     \* decode_macho: the record cursor
  h,          \* decode_macho: the header read
  i,          \* decode_macho: index of the record in hand
  lch,        \* decode_macho: head of the record in hand
  lc,         \* decode_macho: typed body last read (of record lc.i, declared lc.cmdsize)
  j,          \* decode_macho: index of the section in hand
  sections,   \* decode_macho: sections of the segment in hand
  seg,        \* decode_macho: outcome of the match on the record in hand
  l,          \* decode_macho: the records decoded so far (MachO.loads)
  result,     \* outcome of decode_macho
  reads,      \* every read of the buffer made so far
  recs,       \* each record head read: its index, offset, tag, declared size
  aout,       \* to_aout: the AOut9 built
  aresult,    \* outcome of to_aout
  sink,       \* write_to: the bytes the sink has accepted
  wk,         \* write_to: header words written
  wresult,    \* outcome of write_to
  sinkFailed  \* whether a write to the sink has failed

decVars == <<offset, h, i, lch, lc, j, sections, seg, l>>
outVars == <<aout, aresult, sink, wk, wresult, sinkFailed>>
vars == <<file, pc, offset, h, i, lch, lc, j, sections, seg, l, result, reads, recs,
          aout, aresult, sink, wk, wresult, sinkFailed>>

NoResult == [tag |-> "None", a |-> 0, b |-> 0]
Res(tag, a, b) == [tag |-> tag, a |-> a, b |-> b]

\* one LC value: its variant, the head's cmdsize, and for a segment its segname
\* and its (Section, Vec<u8>) pairs
LCv(kind, cmdsize, segname, sects) ==
  [kind |-> kind, cmdsize |-> cmdsize, segname |-> segname, sections |-> sects]
NoLC == LCv("None", 0, <<>>, <<>>)
NoSeg == [ok |-> FALSE, lc |-> NoLC, err |-> NoResult]
SegOk(v) == [ok |-> TRUE, lc |-> v, err |-> NoResult]
SegErr(e) == [ok |-> FALSE, lc |-> NoLC, err |-> e]

NoAout == [magic |-> 0, text |-> <<>>, data |-> <<>>, bss |-> 0, entry |-> 0]

Rd(what, k, n, off, size) == [what |-> what, i |-> k, j |-> n, off |-> off, size |-> size]

\* reinterpret_copy of a T of `size` bytes at `off`: inside the buffer it reads
\* the buffer; reaching past the end it is undefined, and reads whatever
\* follows the buffer (or faults, see Fault)
InBuffer(off, size) == off + size <= Len(file)
Beyond(off, size) == IF InBuffer(off, size) THEN {0} ELSE GarbageBytes

Body(kind, segname, nsects, k, cmdsize) ==
  [kind |-> kind, segname |-> segname, nsects |-> nsects, i |-> k, cmdsize |-> cmdsize]

InitRest ==
  /\ offset = 0
  /\ h = [magic |-> <<>>, ncmds |-> 0, sizeofcmds |-> 0]
  /\ i = 0
  /\ lch = [cmd |-> 0, cmdsize |-> 0]
  /\ lc = Body("None", <<>>, 0, 0, 0)
  /\ j = 0
  /\ sections = <<>>
  /\ seg = NoSeg
  /\ reads = {}
  /\ recs = <<>>
  /\ aout = NoAout
  /\ aresult = "None"
  /\ sink = <<>>
  /\ wk = 0
  /\ wresult = "None"
  /\ sinkFailed = FALSE

Init ==
  /\ file \in Inputs
  /\ pc = "start"
  /\ l = <<>>
  /\ result = NoResult
  /\ InitRest

(* ------------------------------------------------------------ decode_macho *)
Return(r) ==
  /\ result' = r
  /\ pc' = "done"

\* line 78
MinLen == 4
CheckLen ==
  /\ pc = "start"
  /\ IF Len(file) < MinLen
       THEN Return(Res("TooShort", 0, 0))
       ELSE pc' = "header" /\ result' = result
  /\ UNCHANGED <<file, decVars, reads, recs, outVars>>

\* lines 80-86: the buffer is copied out as a narrow Header, then the magic
\* selects the header size
ReadHeader ==
  /\ pc = "header"
  /\ \E g \in Beyond(0, HeaderSize) :
       LET magic == BytesAt(file, g, 0, 4) IN
       /\ h' = [magic |-> magic, ncmds |-> U32At(file, g, 16),
                sizeofcmds |-> U32At(file, g, 20)]
       /\ reads' = reads \cup {Rd("Header", 0, 0, 0, HeaderSize)}
       /\ CASE magic = M32 -> offset' = HeaderSize /\ pc' = "cmds" /\ result' = result
            [] magic = M64 -> offset' = Header64Size /\ pc' = "cmds" /\ result' = result
            [] OTHER ->
                 /\ offset' = offset
                 /\ Return(Res("UnknownMagic", magic[1] + 256 * magic[2],
                               magic[3] + 256 * magic[4]))
  /\ UNCHANGED <<file, i, lch, lc, j, sections, seg, l, recs, outVars>>

\* line 88
CheckCmds ==
  /\ pc = "cmds"
  /\ IF Len(file) < offset + h.sizeofcmds
       THEN Return(Res("TooShort", 0, 0))
       ELSE pc' = "loop" /\ result' = result
  /\ UNCHANGED <<file, decVars, reads, recs, outVars>>

\* lines 91-93: the next record's head (the Vec::with_capacity(ncmds) of line
\* 90 allocates only; ncmds stays small in every input here)
ReadHead ==
  /\ pc = "loop"
  /\ i < h.ncmds
  /\ offset <= Len(file)
  /\ \E g \in Beyond(offset, HeadSize) :
       /\ lch' = [cmd |-> U32At(file, g, offset), cmdsize |-> U32At(file, g, offset + 4)]
       /\ recs' = Append(recs, [i |-> i, off |-> offset, cmd |-> U32At(file, g, offset),
                                cmdsize |-> U32At(file, g, offset + 4)])
  /\ reads' = reads \cup {Rd("LoadCommandHead", i, 0, offset, HeadSize)}
  /\ pc' = "body"
  /\ UNCHANGED <<file, offset, h, i, lc, j, sections, seg, l, result, outVars>>

\* the size estimate with the section descriptors left out
EstSize32NoSections(nsects) == Seg32Size

\* line 102 and line 124
EstSize32(nsects) == Seg32Size + Sect32Size * nsects
EstSize64(nsects) == Seg64Size + Sect64Size * nsects

\* lines 95-107
DecodeSegment32 ==
  /\ pc = "body"
  /\ lch.cmd = Segment32
  /\ \E g \in Beyond(offset, Seg32Size) :
       LET nsects == U32At(file, g, offset + 48) IN
       /\ lc' = Body("Segment32", BytesAt(file, g, offset + 8, 16), nsects, i, lch.cmdsize)
       /\ IF EstSize32(nsects) # lch.cmdsize
            THEN /\ seg' = SegErr(Res("SizeMismatch", 0, 0))
                 /\ pc' = "push"
                 /\ UNCHANGED <<j, sections>>
            ELSE /\ sections' = <<>>
                 /\ j' = 0
                 /\ pc' = "sect"
                 /\ seg' = seg
  /\ reads' = reads \cup {Rd("LcSegment32", i, 0, offset, Seg32Size)}
  /\ UNCHANGED <<file, offset, h, i, lch, l, result, recs, outVars>>

\* lines 117-129
DecodeSegment64 ==
  /\ pc = "body"
  /\ lch.cmd = Segment64
  /\ \E g \in Beyond(offset, Seg64Size) :
       LET nsects == U32At(file, g, offset + 64) IN
       /\ lc' = Body("Segment64", BytesAt(file, g, offset + 8, 16), nsects, i, lch.cmdsize)
       /\ IF EstSize64(nsects) # lch.cmdsize
            THEN /\ seg' = SegErr(Res("SizeMismatch", 0, 0))
                 /\ pc' = "push"
                 /\ UNCHANGED <<j, sections>>
            ELSE /\ sections' = <<>>
                 /\ j' = 0
                 /\ pc' = "sect"
                 /\ seg' = seg
  /\ reads' = reads \cup {Rd("LcSegment64", i, 0, offset, Seg64Size)}
  /\ UNCHANGED <<file, offset, h, i, lch, l, result, recs, outVars>>

\* lines 110 and 132: where section descriptor n of the segment in hand lies
SectionOffset32(off, n) == off + Seg32Size + Sect32Size * n
SectionOffset64(off, n) == off + Seg64Size + Sect64Size * n

\* lines 67-72, load: file[off..off+siz] panics unless it lies in the buffer
LoadOk(off, siz) == off + siz <= Len(file)
Load(off, siz) == BytesAt(file, 0, off, siz)

\* the loop body of lines 108-113 / 130-135, on the descriptor read at `so`
\* with its size and offset fields
SectionStep(what, so, ssize, sectname, size, off) ==
  IF LoadOk(off, size)
    THEN /\ sections' = Append(sections, [sectname |-> sectname, size |-> size,
                                          offset |-> off, data |-> Load(off, size)])
         /\ j' = j + 1
         /\ reads' = reads \cup {Rd(what, i, j, so, ssize), Rd("load", i, j, off, size)}
         /\ UNCHANGED <<pc, result>>
    ELSE /\ reads' = reads \cup {Rd(what, i, j, so, ssize)}
         /\ Return(Res("Panic", 0, 0))
         /\ UNCHANGED <<sections, j>>

ReadSection32 ==
  /\ pc = "sect"
  /\ lc.kind = "Segment32"
  /\ j < lc.nsects
  /\ LET so == SectionOffset32(offset, j) IN
     /\ so <= Len(file)
     /\ \E g \in Beyond(so, Sect32Size) :
          SectionStep("Section32", so, Sect32Size, BytesAt(file, g, so, 16),
                      U32At(file, g, so + 36), U32At(file, g, so + 40))
  /\ UNCHANGED <<file, offset, h, i, lch, lc, seg, l, recs, outVars>>

ReadSection64 ==
  /\ pc = "sect"
  /\ lc.kind = "Segment64"
  /\ j < lc.nsects
  /\ LET so == SectionOffset64(offset, j) IN
     /\ so <= Len(file)
     /\ \E g \in Beyond(so, Sect64Size) :
          SectionStep("Section64", so, Sect64Size, BytesAt(file, g, so, 16),
                      U64At(file, g, so + 40), U32At(file, g, so + 48))
  /\ UNCHANGED <<file, offset, h, i, lch, lc, seg, l, recs, outVars>>

\* lines 114 and 136: every section read
SegmentOk ==
  /\ pc = "sect"
  /\ j >= lc.nsects
  /\ seg' = SegOk(LCv(lc.kind, lch.cmdsize, lc.segname, sections))
  /\ pc' = "push"
  /\ UNCHANGED <<file, offset, h, i, lch, lc, j, sections, l, result, reads, recs, outVars>>

\* lines 139-163: a record of one fixed shape, copied out whole
FixedShape(kind, size) ==
  /\ seg' = SegOk(LCv(kind, lch.cmdsize, <<>>, <<>>))
  /\ reads' = reads \cup {Rd(kind, i, 0, offset, size)}
  /\ pc' = "push"
  /\ UNCHANGED <<file, offset, h, i, lch, lc, j, sections, l, result, recs, outVars>>

DecodeSymtab ==
  /\ pc = "body"
  /\ lch.cmd = Symtab
  /\ FixedShape("Symtab", SymtabSize)

DecodeDySymtab ==
  /\ pc = "body"
  /\ lch.cmd = DySymtab
  /\ FixedShape("DySymtab", DySymtabSize)

DecodeUuid ==
  /\ pc = "body"
  /\ lch.cmd = Uuid
  /\ FixedShape("Uuid", UuidSize)

DecodeVersionMinOS ==
  /\ pc = "body"
  /\ lch.cmd = VersionMinOS
  /\ FixedShape("VersionMinOS", VersionMinOSSize)

DecodeSourceVersion ==
  /\ pc = "body"
  /\ lch.cmd = SourceVersion
  /\ FixedShape("SourceVersion", SourceVersionSize)

\* lines 164-180
DecodeUnixThread ==
  /\ pc = "body"
  /\ lch.cmd = UnixThread
  /\ \E g \in Beyond(offset, UnixThreadHeadSize) :
       LET flavor == U32At(file, g, offset + 8)
           count == U32At(file, g, offset + 12)
       IN CASE flavor = ThreadStateFlavorX86 /\ count = CountX86 ->
                 /\ lc' = Body("ThreadStateX86", <<>>, 0, i, lch.cmdsize)
                 /\ pc' = "tstate"
                 /\ seg' = seg
            [] flavor = ThreadStateFlavorX86_64 /\ count = CountX86_64 ->
                 /\ lc' = Body("ThreadStateX86_64", <<>>, 0, i, lch.cmdsize)
                 /\ pc' = "tstate"
                 /\ seg' = seg
            [] OTHER ->
                 /\ seg' = SegErr(Res("UnrecognizedThreadState", flavor, count))
                 /\ pc' = "push"
                 /\ lc' = lc
  /\ reads' = reads \cup {Rd("LcUnixThreadHead", i, 0, offset, UnixThreadHeadSize)}
  /\ UNCHANGED <<file, offset, h, i, lch, j, sections, l, result, recs, outVars>>

ThreadStateSize(kind) ==
  IF kind = "ThreadStateX86" THEN ThreadStateX86Size ELSE ThreadStateX86_64Size

\* lines 170-172 and 175-177: the register array after the thread head
ReadThreadState ==
  /\ pc = "tstate"
  /\ offset + UnixThreadHeadSize <= Len(file)
  /\ reads' = reads \cup {Rd(lc.kind, i, 0, offset + UnixThreadHeadSize,
                             ThreadStateSize(lc.kind))}
  /\ seg' = SegOk(LCv("UnixThread", lch.cmdsize, <<>>, <<>>))
  /\ pc' = "push"
  /\ UNCHANGED <<file, offset, h, i, lch, lc, j, sections, l, result, recs, outVars>>

\* the tags the match of lines 94-183 has an arm for
MatchedTags ==
  {Segment32, Segment64, Symtab, DySymtab, Uuid, VersionMinOS, SourceVersion, UnixThread}

\* line 182
DecodeOther ==
  /\ pc = "body"
  /\ lch.cmd \notin MatchedTags
  /\ seg' = SegErr(Res("UnrecognizedSegment", i, lch.cmd))
  /\ pc' = "push"
  /\ UNCHANGED <<file, offset, h, i, lch, lc, j, sections, l, result, reads, recs, outVars>>

\* the cursor moved by the bytes the typed shape occupies
AdvanceByShape(off, head) == off + (IF head.cmd = Uuid THEN UuidSize ELSE head.cmdsize)

\* line 188
Advance(off, head) == off + head.cmdsize

\* lines 184-188
Push ==
  /\ pc = "push"
  /\ IF seg.ok
       THEN /\ l' = Append(l, seg.lc)
            /\ offset' = Advance(offset, lch)
            /\ i' = i + 1
            /\ pc' = "loop"
            /\ result' = result
       ELSE /\ Return(seg.err)
            /\ UNCHANGED <<l, offset, i>>
  /\ UNCHANGED <<file, h, lch, lc, j, sections, seg, reads, recs, outVars>>

\* line 191
Finish ==
  /\ pc = "loop"
  /\ i >= h.ncmds
  /\ result' = Res("Ok", 0, 0)
  /\ pc' = "decoded"
  /\ UNCHANGED <<file, decVars, reads, recs, outVars>>

\* the read the decoder is about to make
PendingRead ==
  CASE pc = "header" -> Rd("Header", 0, 0, 0, HeaderSize)
    [] pc = "loop" -> Rd("LoadCommandHead", i, 0, offset, HeadSize)
    [] pc = "body" /\ lch.cmd = Segment32 -> Rd("LcSegment32", i, 0, offset, Seg32Size)
    [] pc = "body" /\ lch.cmd = Segment64 -> Rd("LcSegment64", i, 0, offset, Seg64Size)
    [] pc = "body" /\ lch.cmd = Symtab -> Rd("Symtab", i, 0, offset, SymtabSize)
    [] pc = "body" /\ lch.cmd = DySymtab -> Rd("DySymtab", i, 0, offset, DySymtabSize)
    [] pc = "body" /\ lch.cmd = Uuid -> Rd("Uuid", i, 0, offset, UuidSize)
    [] pc = "body" /\ lch.cmd = VersionMinOS ->
         Rd("VersionMinOS", i, 0, offset, VersionMinOSSize)
    [] pc = "body" /\ lch.cmd = SourceVersion ->
         Rd("SourceVersion", i, 0, offset, SourceVersionSize)
    [] pc = "body" /\ lch.cmd = UnixThread ->
         Rd("LcUnixThreadHead", i, 0, offset, UnixThreadHeadSize)
    [] pc = "sect" /\ lc.kind = "Segment32" /\ j < lc.nsects ->
         Rd("Section32", i, j, SectionOffset32(offset, j), Sect32Size)
    [] pc = "sect" /\ lc.kind = "Segment64" /\ j < lc.nsects ->
         Rd("Section64", i, j, SectionOffset64(offset, j), Sect64Size)
    [] pc = "tstate" ->
         Rd(lc.kind, i, 0, offset + UnixThreadHeadSize, ThreadStateSize(lc.kind))
    [] OTHER -> Rd("None", 0, 0, 0, 0)

Reading == PendingRead.what # "None" /\ (pc = "loop" => i < h.ncmds)

\* &file[off..] with off past the end of the buffer: the slice panics
SlicePanic ==
  /\ Reading
  /\ PendingRead.off > Len(file)
  /\ Return(Res("Panic", 0, 0))
  /\ UNCHANGED <<file, decVars, reads, recs, outVars>>

\* a read through reinterpret_copy that reaches past the buffer may also hit
\* unmapped memory and end the process
Fault ==
  /\ Reading
  /\ PendingRead.off <= Len(file)
  /\ ~InBuffer(PendingRead.off, PendingRead.size)
  /\ reads' = reads \cup {PendingRead}
  /\ Return(Res("Fault", 0, 0))
  /\ UNCHANGED <<file, decVars, recs, outVars>>

(* ----------------------------------------------------------------- to_aout *)
\* is_dynamic without its LoadDylinker arm
IsDynamicSymtabOnly(loads) ==
  \E k \in 1..Len(loads) : loads[k].kind = "DySymtab"

\* macho.rs lines 293-299
IsDynamic(loads) ==
  \E k \in 1..Len(loads) : loads[k].kind \in {"DySymtab", "LoadDylinker"}

\* lines 202-204 / 210-212: the narrow segments whose segname begins with the
\* bytes of `name`
RECURSIVE SegmentsNamed(_, _)
SegmentsNamed(loads, name) ==
  IF loads = <<>> THEN <<>>
  ELSE (IF Head(loads).kind = "Segment32" /\ Take(Head(loads).segname, Len(name)) = name
          THEN <<Head(loads)>> ELSE <<>>)
       \o SegmentsNamed(Tail(loads), name)

\* lines 205-207: the bytes of every section of the segments, in order
SectionData(sects) == Flatten([k \in 1..Len(sects) |-> sects[k].data])
Collect(loads, name) ==
  LET segs == SegmentsNamed(loads, name)
  IN Flatten([k \in 1..Len(segs) |-> SectionData(segs[k].sections)])

\* lines 217-224: the size fields of the "__bss" sections of the data segments
BssOf(sects) ==
  SumSeq([k \in 1..Len(sects) |->
            IF Take(sects[k].sectname, Len(BssName)) = BssName THEN sects[k].size ELSE 0])
Bss(loads) ==
  LET segs == SegmentsNamed(loads, DataName)
  IN SumSeq([k \in 1..Len(segs) |-> BssOf(segs[k].sections)])

\* lines 195-233
ToAout ==
  /\ pc = "decoded"
  /\ IF IsDynamic(l)
       THEN /\ aresult' = "DynamicUnsupported"
            /\ pc' = "done"
            /\ aout' = aout
       ELSE /\ aout' = [magic |-> MagicI, text |-> Collect(l, TextName),
                        data |-> Collect(l, DataName), bss |-> Bss(l),
                        entry |-> AoutEntry]
            /\ aresult' = "Ok"
            /\ pc' = "write"
  /\ UNCHANGED <<file, decVars, result, reads, recs, sink, wk, wresult, sinkFailed>>

(* ---------------------------------------------------------------- write_to *)
\* aout9.rs lines 89-98
HeaderWords(a) == <<a.magic, Len(a.text), Len(a.data), a.bss, 0, a.entry + LoadBase, 0, 0>>

\* write_u32::<BigEndian>
BE32(v) == << (v \div 16777216) % 256, (v \div 65536) % 256, (v \div 256) % 256, v % 256 >>

\* Header has eight u32 fields
HeaderFields == 8

\* aout9.rs lines 105-107: one header word; the write's Result is unwrapped.
\* A write the sink refuses adds nothing to it.
WriteHeaderWord ==
  /\ pc = "write"
  /\ wk < HeaderFields
  /\ \E ok \in BOOLEAN :
       IF ok
         THEN /\ sink' = sink \o BE32(HeaderWords(aout)[wk + 1])
              /\ wk' = wk + 1
              /\ UNCHANGED <<pc, wresult, sinkFailed>>
         ELSE /\ wresult' = "Panic"
              /\ sinkFailed' = TRUE
              /\ pc' = "done"
              /\ UNCHANGED <<sink, wk>>
  /\ UNCHANGED <<file, decVars, result, reads, recs, aout, aresult>>

\* aout9.rs line 109
WriteText ==
  /\ pc = "write"
  /\ wk = HeaderFields
  /\ \E ok \in BOOLEAN :
       IF ok
         THEN /\ sink' = sink \o aout.text
              /\ pc' = "wdata"
              /\ UNCHANGED <<wresult, sinkFailed>>
         ELSE /\ wresult' = "IoError"
              /\ sinkFailed' = TRUE
              /\ pc' = "done"
              /\ sink' = sink
  /\ UNCHANGED <<file, decVars, result, reads, recs, aout, aresult, wk>>

\* aout9.rs lines 110-112
WriteData ==
  /\ pc = "wdata"
  /\ \E ok \in BOOLEAN :
       IF ok
         THEN /\ sink' = sink \o aout.data
              /\ wresult' = "Ok"
              /\ sinkFailed' = sinkFailed
         ELSE /\ wresult' = "IoError"
              /\ sinkFailed' = TRUE
              /\ sink' = sink
  /\ pc' = "done"
  /\ UNCHANGED <<file, decVars, result, reads, recs, aout, aresult, wk>>

(* ---------------------------------------------------------- specifications *)
\* main, lines 240-242: decode_macho, then to_aout, then write_to
Next ==
  \/ CheckLen
  \/ ReadHeader
  \/ CheckCmds
  \/ ReadHead
  \/ DecodeSegment32
  \/ DecodeSegment64
  \/ ReadSection32
  \/ ReadSection64
  \/ SegmentOk
  \/ DecodeSymtab
  \/ DecodeDySymtab
  \/ DecodeUuid
  \/ DecodeVersionMinOS
  \/ DecodeSourceVersion
  \/ DecodeUnixThread
  \/ ReadThreadState
  \/ DecodeOther
  \/ Push
  \/ Finish
  \/ SlicePanic
  \/ Fault
  \/ ToAout
  \/ WriteHeaderWord
  \/ WriteText
  \/ WriteData

Spec == Init /\ [][Next]_vars

\* the sections and records of the images handed to to_aout directly
ImgSect(nm, bytes) ==
  [sectname |-> Name16(nm), size |-> Len(bytes), offset |-> 0, data |-> bytes]

LoadKinds ==
  { LCv("Segment32", Seg32Size + 2 * Sect32Size, Name16(TextName),
        <<ImgSect(SectText, <<161, 162>>), ImgSect(SectText, <<177>>)>>),
    LCv("Segment32", Seg32Size + Sect32Size, Name16(TextName),
        <<ImgSect(SectText, <<193>>)>>),
    LCv("Segment32", Seg32Size + 2 * Sect32Size, Name16(DataName),
        <<ImgSect(SectData, <<209>>), ImgSect(BssName, <<>>)>>),
    LCv("Segment32", Seg32Size + Sect32Size, Name16(TextExecName),
        <<ImgSect(SectText, <<225>>)>>),
    LCv("Segment64", Seg64Size + Sect64Size, Name16(TextName),
        <<ImgSect(SectText, <<241>>)>>),
    LCv("Symtab", SymtabSize, <<>>, <<>>),
    LCv("DySymtab", DySymtabSize, <<>>, <<>>),
    LCv("LoadDylinker", 32, <<>>, <<>>),
    LCv("Uuid", UuidSize, <<>>, <<>>),
    LCv("UnixThread", UnixThreadHeadSize + ThreadStateX86Size, <<>>, <<>>) }

\* to_aout and write_to on every image of up to MaxLoads records
InitAgg ==
  /\ file = <<>>
  /\ pc = "decoded"
  /\ l \in SeqsUpTo(LoadKinds, MaxLoads)
  /\ result = Res("Ok", 0, 0)
  /\ InitRest

NextAgg ==
  \/ ToAout
  \/ WriteHeaderWord
  \/ WriteText
  \/ WriteData

SpecAgg == InitAgg /\ [][NextAgg]_vars

(* ------------------------------------------------------------------ claims *)
AllReadsInBuffer == \A r \in reads : InBuffer(r.off, r.size)

\* C1: on a buffer shorter than the 28-byte narrow header decode_macho reads
\* nothing from the buffer and returns TooShort.
C1_ShortBufferTooShort ==
  Len(file) < HeaderSize =>
    /\ reads = {}
    /\ result.tag \in {"None", "TooShort"}

\* C2: when decode_macho accepts a stream, the declared sizes of the records it
\* consumed add up to sizeofcmds, and no record was read at or beyond
\* header_size + sizeofcmds (here even over the runs whose every read lies
\* within the buffer).
C2_ConsumedEqualsDeclared ==
  (result.tag = "Ok" /\ AllReadsInBuffer) =>
    /\ SumSeq([k \in 1..Len(l) |-> l[k].cmdsize]) = h.sizeofcmds
    /\ \A r \in reads :
         r.what \notin {"Header", "load"} =>
           r.off < (IF h.magic = M64 THEN Header64Size ELSE HeaderSize) + h.sizeofcmds

\* C3: every read of the buffer lies within it, and a decode that succeeds
\* holds for each section the whole payload [offset, offset + size).
C3_ReadsWithinBuffer ==
  /\ AllReadsInBuffer
  /\ result.tag = "Ok" =>
       \A k \in 1..Len(l) : \A n \in 1..Len(l[k].sections) :
         LET sc == l[k].sections[n] IN
         /\ sc.offset + sc.size <= Len(file)
         /\ sc.data = SubSeq(file, sc.offset + 1, sc.offset + sc.size)

\* the section descriptors read so far for record k
DescReads(k) == {r \in reads : r.what \in {"Section32", "Section64"} /\ r.i = k}

\* the segment record last read: its fixed size, its descriptor size, and the
\* size its nsects imply
SegFixed == IF lc.kind = "Segment32" THEN Seg32Size ELSE Seg64Size
SegDesc == IF lc.kind = "Segment32" THEN Sect32Size ELSE Sect64Size
SegEst == SegFixed + SegDesc * lc.nsects
SegInHand == lc.kind \in {"Segment32", "Segment64"}

\* a segment record whose declared size differs from fixed + nsects * descriptor
\* size yields SizeMismatch, with no section descriptor or payload of it read
C4_MismatchPart ==
  (SegInHand /\ SegEst # lc.cmdsize) =>
    /\ DescReads(lc.i) = {}
    /\ ~ \E r \in reads : r.what = "load" /\ r.i = lc.i
    /\ pc = "push" /\ i = lc.i => ~seg.ok /\ seg.err.tag = "SizeMismatch"
    /\ pc = "done" /\ i = lc.i => result.tag = "SizeMismatch"

\* C4 (as stated): ... and when the sizes are equal exactly nsects descriptors
\* are read (here even over the runs whose every read lies within the buffer).
C4_ExactlyNsectsRead ==
  /\ C4_MismatchPart
  /\ (SegInHand /\ SegEst = lc.cmdsize /\ pc # "sect" /\ AllReadsInBuffer) =>
       Cardinality(DescReads(lc.i)) = lc.nsects

\* C4 (amended): a mismatching segment record yields SizeMismatch with no
\* descriptor or payload read; when the sizes are equal the descriptors are
\* read in order at cursor + fixed_size + j * descriptor_size, j = 0, 1, ...,
\* all nsects of them once the record has decoded; fewer are read only when
\* decoding aborts inside the record (a section payload or a descriptor lying
\* outside the buffer).
C4_SegmentSizeChecked ==
  /\ C4_MismatchPart
  /\ (SegInHand /\ SegEst = lc.cmdsize) =>
       LET n == Cardinality(DescReads(lc.i))
           what == IF lc.kind = "Segment32" THEN "Section32" ELSE "Section64"
       IN /\ n <= lc.nsects
          /\ DescReads(lc.i) =
               { Rd(what, lc.i, m, recs[lc.i + 1].off + SegFixed + SegDesc * m, SegDesc) :
                   m \in 0..(n - 1) }
          /\ (Len(l) > lc.i \/ (pc = "push" /\ i = lc.i /\ seg.ok)) => n = lc.nsects
          /\ (n < lc.nsects /\ pc # "sect") => result.tag \in {"Panic", "Fault"}
          /\ \A r \in reads : (r.what = "load" /\ r.i = lc.i) => r.j < n

\* a two-section segment decoded whole, and the next record refused for its size
C4_Witness ==
  /\ result.tag = "SizeMismatch"
  /\ Len(l) = 1
  /\ Len(l[1].sections) = 2
  /\ Cardinality(DescReads(0)) = 2
  /\ DescReads(1) = {}

\* the nine tags of LoadCommandType and the LC variant of each
RecognizedTags ==
  {Segment32, Symtab, UnixThread, DySymtab, LoadDylinker, Segment64, Uuid,
   VersionMinOS, SourceVersion}
TagKind(cmd) ==
  CASE cmd = Segment32 -> "Segment32"
    [] cmd = Symtab -> "Symtab"
    [] cmd = UnixThread -> "UnixThread"
    [] cmd = DySymtab -> "DySymtab"
    [] cmd = LoadDylinker -> "LoadDylinker"
    [] cmd = Segment64 -> "Segment64"
    [] cmd = Uuid -> "Uuid"
    [] cmd = VersionMinOS -> "VersionMinOS"
    [] cmd = SourceVersion -> "SourceVersion"
    [] OTHER -> "None"

\* C5: each record is dispatched on its tag to one of the nine shapes and gives
\* the matching LC variant; UnrecognizedSegment(i, tag) is returned exactly when
\* record i carries a tag outside the nine, and then no image is returned
\* (here even over the runs whose every read lies within the buffer).
C5_NineShapes ==
  AllReadsInBuffer =>
  /\ result.tag = "UnrecognizedSegment" =>
       /\ result.b \notin RecognizedTags
       /\ result.a = i
       /\ pc = "done" /\ aresult = "None"
  /\ (pc = "push" /\ lch.cmd \notin RecognizedTags) =>
       ~seg.ok /\ seg.err.tag = "UnrecognizedSegment"
  /\ (pc = "push" /\ seg.ok) => seg.lc.kind = TagKind(lch.cmd)

\* C6: to_aout fails with DynamicUnsupported, building no AOut9 and writing
\* nothing, exactly when some record of the image is a DySymtab or a
\* LoadDylinker record.
C6_DynamicRejected ==
  aresult # "None" =>
    /\ (aresult = "DynamicUnsupported") <=>
         (\E k \in 1..Len(l) : l[k].kind = "DySymtab" \/ l[k].kind = "LoadDylinker")
    /\ aresult = "DynamicUnsupported" =>
         aout = NoAout /\ sink = <<>> /\ pc = "done" /\ wresult = "None"

\* a LoadDylinker record after a segment, refused
C6_Witness ==
  /\ aresult = "DynamicUnsupported"
  /\ Len(l) = 2
  /\ l[1].kind = "Segment32"
  /\ l[2].kind = "LoadDylinker"

\* the bytes of every section of every segment record named exactly `name`
RECURSIVE BytesOfSegmentsEqual(_, _)
BytesOfSegmentsEqual(loads, name) ==
  IF loads = <<>> THEN <<>>
  ELSE (IF Head(loads).kind \in {"Segment32", "Segment64"}
             /\ Head(loads).segname = Name16(name)
          THEN Flatten([k \in 1..Len(Head(loads).sections) |->
                          Head(loads).sections[k].data])
          ELSE <<>>)
       \o BytesOfSegmentsEqual(Tail(loads), name)

\* C7: the text buffer is the concatenation, in record then section order, of
\* the bytes of the sections of the segment records whose name equals "__TEXT",
\* and the data buffer likewise for "__DATA" (here even over the runs whose
\* every read lies within the buffer).
C7_TextIsNamedSegments ==
  (aresult = "Ok" /\ AllReadsInBuffer) =>
    /\ aout.text = BytesOfSegmentsEqual(l, TextName)
    /\ aout.data = BytesOfSegmentsEqual(l, DataName)

\* an image of one "__TEXT" segment with one section and one "__DATA" segment
\* with a data section and a "__bss" section
EndToEndShape ==
  /\ Len(l) = 2
  /\ l[1].kind = "Segment32" /\ l[1].segname = Name16(TextName)
  /\ Len(l[1].sections) = 1
  /\ l[2].kind = "Segment32" /\ l[2].segname = Name16(DataName)
  /\ Len(l[2].sections) = 2
  /\ l[2].sections[1].sectname = Name16(SectData)
  /\ l[2].sections[2].sectname = Name16(BssName)

\* C8: for such an input with N text bytes, M data bytes and a "__bss" of size
\* K, the output is the eight big-endian words magic, N, M, K, 0,
\* 0x1000 + 0x20, 0, 0 followed by the text payload and the data payload.
C8_EndToEnd ==
  (EndToEndShape /\ wresult = "Ok" /\ AllReadsInBuffer) =>
    LET tx == l[1].sections[1]
        dt == l[2].sections[1]
        bs == l[2].sections[2]
    IN sink = BE32(MagicI) \o BE32(tx.size) \o BE32(dt.size) \o BE32(bs.size)
                \o BE32(0) \o BE32(4096 + 32) \o BE32(0) \o BE32(0)
                \o SubSeq(file, tx.offset + 1, tx.offset + tx.size)
                \o SubSeq(file, dt.offset + 1, dt.offset + dt.size)

\* C9: a failing write to the sink, wherever in the pass it happens, makes
\* write_to return an I/O error, and nothing is written after it.
C9_SinkFailureIsIoError ==
  sinkFailed => wresult = "IoError" /\ pc = "done"

\* C10: the cursor starts right after the header (28 after 0xfeedface, 32 after
\* 0xfeedfacf), each record is read where the previous one began plus its
\* declared cmdsize, and a successful decode holds the ncmds records in stream
\* order.
C10_CursorAdvance ==
  /\ recs # <<>> => recs[1].off = (IF h.magic = M32 THEN 28 ELSE 32)
  /\ \A k \in 1..Len(recs) : recs[k].i = k - 1
  /\ \A k \in 1..(Len(recs) - 1) : recs[k + 1].off = recs[k].off + recs[k].cmdsize
  /\ pc \in {"body", "sect", "tstate", "push"} => offset = recs[Len(recs)].off
  /\ result.tag = "Ok" =>
       /\ Len(l) = h.ncmds
       /\ Len(recs) = h.ncmds
       /\ \A k \in 1..Len(l) :
            l[k].kind = TagKind(recs[k].cmd) /\ l[k].cmdsize = recs[k].cmdsize

\* two records decoded, the first declared longer than its typed shape
C10_Witness ==
  /\ result.tag = "Ok"
  /\ Len(l) = 2
  /\ recs[1].cmd = Uuid
  /\ recs[1].cmdsize = UuidSize + 8
  /\ recs[2].off = HeaderSize + UuidSize + 8

====
